---- MODULE Spec2Model ----
(***************************************************************************)
(* Portable File Dialogs (portable-file-dialogs.h), POSIX build (!_WIN32). *)
(*                                                                         *)
(* Three parts, each with its own specification over the same variables:   *)
(*   Spec / FairSpec  pfd::internal::executor: one child process read      *)
(*                    through a non-blocking pipe, with the child and the  *)
(*                    pipe as the environment;                             *)
(*   SpecDialog       pfd::internal::dialog, pfd::settings and the dialog  *)
(*                    constructors: helper probing, verbosity, commands;   *)
(*   SpecQuote        dialog::shell_quote and dialog::powershell_quote,    *)
(*                    read back by the interpreter they are written for.   *)
(* A string is a sequence of pieces, each a TLA+ string: a character of    *)
(* the user's text, or a piece of a string literal of the source.  The     *)
(* literals are cut so that every button-set or icon name that occurs in   *)
(* one is a piece of its own; Text(s) is the string the pieces spell.      *)
(***************************************************************************)
EXTENDS Integers, Sequences, FiniteSets, TLC

VARIABLES
    \* ---- executor (one object) ----
    m_state,        \* "idle" | "running" | "finished"
    m_result,       \* std::string: the captured output
    m_exit_code,    \* int, -1 until pclose() sets it
    m_stream,       \* FILE*: 0 is nullptr, n > 0 the n-th stream popen() returned
    pc,             \* where the calling thread is: "top", inside the stop() loop
                    \* of "start" / "result" / "dtor", or "gone" (object destroyed)
    op,             \* the last operation that returned to the caller
    retReady,       \* what the last ready() since the last start() returned
    retText,        \* what the last result() since the last start() returned
    retCode,        \* what it stored in *exit_code
    \* ---- the child process and its pipe (environment) ----
    pipe,           \* bytes written and not yet read
    alive,          \* the child still holds the write end of the pipe
    status,         \* the wait status pclose() returns for the child, once it has exited
    openStreams,    \* the streams popen() opened and pclose() has not closed
    doubleClose,    \* pclose() was called on a stream that was not open
    \* ---- history of the executor ----
    full,           \* everything the last started command has written
    nStarts,        \* start() calls so far
    launchFailed,   \* the last start() could not launch its command
    readyTrue,      \* ready() has returned true since the last start()
    nResults,       \* result() calls returned since the last start(), counted to 2
    \* ---- dialog layer (process-wide statics and the last operation) ----
    flags,          \* static bool flags[max_flag]
    analysed,       \* static bool analysed
    nOps,           \* public operations so far
    nDialogs,       \* message, notify and file dialogs constructed so far
    dop,            \* the last public operation
    dargs,          \* its arguments
    events,         \* what it wrote to std::cerr and what it started, in order
    \* ---- quoting ----
    str,            \* the string handed to a quoting function
    quoted,         \* what the function returned
    qfn             \* which function ran: "none" | "shell" | "powershell"

execVars == <<m_state, m_result, m_exit_code, m_stream, pc, op, retReady, retText,
              retCode, pipe, alive, status, openStreams, doubleClose, full,
              nStarts, launchFailed, readyTrue, nResults>>
dialogVars == <<flags, analysed, nOps, nDialogs, dop, dargs, events>>
quoteVars == <<str, quoted, qfn>>
vars == <<execVars, dialogVars, quoteVars>>

(***************************************************************************)
(* Bounds                                                                  *)
(***************************************************************************)
\* start() calls on the one executor
MaxStarts == 2
\* longest output of a command, in bytes
MaxOut == 3
\* size of ready()'s read buffer (stdio's BUFSIZ, scaled down)
BUFSIZ == 3
\* capacity of the pipe, in bytes
PipeCap == 2
\* public operations of the dialog layer in one run
MaxOps == 2
\* longest string handed to a quoting function
MaxLen == 3

Min(a, b) == IF a < b THEN a ELSE b

\* The bytes a child may write; 0 is the NUL byte.
Bytes == {0, 1, 2}
\* pclose() returns the wait status: exit code 0, or exit code 1 (1 << 8).
Statuses == {0, 256}

(***************************************************************************)
(* executor                                                                *)
(***************************************************************************)

\* read(m_fd, buf, BUFSIZ - 1) on the O_NONBLOCK pipe: the number of bytes
\* received; -1 stands for -1 with errno == EAGAIN (nothing to read, write
\* end still open), 0 is end-of-stream.
received ==
    IF Len(pipe) > 0 THEN Min(Len(pipe), BUFSIZ - 1)
    ELSE IF alive THEN -1
    ELSE 0

\* `m_result += buf` with buf a char array ended by buf[received] = '\0':
\* std::string::operator+=(const char*) appends up to the first NUL.
c_str(buf) ==
    IF \E i \in 1..Len(buf) : buf[i] = 0
    THEN SubSeq(buf, 1, (CHOOSE i \in 1..Len(buf) :
                            buf[i] = 0 /\ \A j \in 1..(i - 1) : buf[j] # 0) - 1)
    ELSE buf

\* A ready() that never leaves the running state.
ready_never_finishes ==
    IF m_state # "running"
    THEN [ret |-> TRUE, m_state |-> m_state, m_result |-> m_result, pipe |-> pipe]
    ELSE IF received > 0
    THEN [ret |-> FALSE, m_state |-> m_state,
          m_result |-> m_result \o c_str(SubSeq(pipe, 1, received)),
          pipe |-> SubSeq(pipe, received + 1, Len(pipe))]
    ELSE [ret |-> FALSE, m_state |-> m_state, m_result |-> m_result, pipe |-> pipe]

\* executor::ready(): its return value and what it leaves in the fields it
\* writes (and in the pipe it reads from).
ready ==
    IF m_state # "running"
    THEN [ret |-> TRUE, m_state |-> m_state, m_result |-> m_result, pipe |-> pipe]
    ELSE IF received = -1
    THEN [ret |-> FALSE, m_state |-> m_state, m_result |-> m_result, pipe |-> pipe]
    ELSE IF received > 0
    THEN [ret |-> FALSE, m_state |-> m_state,
          m_result |-> m_result \o c_str(SubSeq(pipe, 1, received)),
          pipe |-> SubSeq(pipe, received + 1, Len(pipe))]
    ELSE [ret |-> TRUE, m_state |-> "finished", m_result |-> m_result, pipe |-> pipe]

\* A stop() that closes the stream and leaves m_state as it is.
stop_keeps_state ==
    IF m_state = "idle"
    THEN [done |-> TRUE, m_state |-> m_state, m_result |-> m_result,
          m_exit_code |-> m_exit_code, pipe |-> pipe,
          open |-> openStreams, dbl |-> doubleClose]
    ELSE LET r == ready IN
         IF ~r.ret
         THEN [done |-> FALSE, m_state |-> r.m_state, m_result |-> r.m_result,
               m_exit_code |-> m_exit_code, pipe |-> r.pipe,
               open |-> openStreams, dbl |-> doubleClose]
         ELSE [done |-> TRUE, m_state |-> r.m_state, m_result |-> r.m_result,
               m_exit_code |-> IF m_stream \in openStreams THEN status ELSE -1,
               pipe |-> r.pipe,
               open |-> openStreams \ {m_stream},
               dbl |-> doubleClose \/ m_stream \notin openStreams]

\* executor::stop(), one round of it: the idle test, one ready() of the
\* `while (!ready()) sleep` loop and, when ready() returned true, pclose()
\* and the reset to idle.  done = FALSE: the thread stays in the loop.
stop ==
    IF m_state = "idle"
    THEN [done |-> TRUE, m_state |-> m_state, m_result |-> m_result,
          m_exit_code |-> m_exit_code, pipe |-> pipe,
          open |-> openStreams, dbl |-> doubleClose]
    ELSE LET r == ready IN
         IF ~r.ret
         THEN [done |-> FALSE, m_state |-> r.m_state, m_result |-> r.m_result,
               m_exit_code |-> m_exit_code, pipe |-> r.pipe,
               open |-> openStreams, dbl |-> doubleClose]
         ELSE [done |-> TRUE, m_state |-> "idle", m_result |-> r.m_result,
               \* pclose(m_stream): the child's wait status; closing a stream
               \* that is not open fails with -1
               m_exit_code |-> IF m_stream \in openStreams THEN status ELSE -1,
               pipe |-> r.pipe,
               open |-> openStreams \ {m_stream},
               dbl |-> doubleClose \/ m_stream \notin openStreams]

\* The thread is still inside stop(): it has read what there was and sleeps.
StillStopping(s, who) ==
    /\ m_state' = s.m_state
    /\ m_result' = s.m_result
    /\ pipe' = s.pipe
    /\ pc' = who
    /\ UNCHANGED <<m_exit_code, m_stream, op, retReady, retText, retCode, alive,
                   status, openStreams, doubleClose, full, nStarts, launchFailed,
                   readyTrue, nResults>>

\* A start() that keeps what the executor held when popen() fails.
start_tail_keeps_old(s) ==
    /\ pc' = "top"
    /\ op' = "start"
    /\ nStarts' = nStarts + 1
    /\ readyTrue' = FALSE
    /\ nResults' = 0
    /\ doubleClose' = s.dbl
    /\ retReady' = FALSE
    /\ retText' = <<>>
    /\ retCode' = -1
    /\ \E launched \in BOOLEAN :
          IF launched
          THEN /\ m_result' = <<>>
               /\ m_exit_code' = -1
               /\ m_stream' = nStarts + 1
               /\ openStreams' = s.open \cup {nStarts + 1}
               /\ m_state' = "running"
               /\ pipe' = <<>>
               /\ alive' = TRUE
               /\ full' = <<>>
               /\ launchFailed' = FALSE
               /\ status' = 0
          ELSE /\ m_result' = s.m_result
               /\ m_exit_code' = s.m_exit_code
               /\ m_stream' = 0
               /\ openStreams' = s.open
               /\ m_state' = s.m_state
               /\ pipe' = s.pipe
               /\ full' = <<>>
               /\ launchFailed' = TRUE
               /\ UNCHANGED <<alive, status>>

\* executor::start() after its stop() has returned: clear the result, set the
\* exit code to -1, popen() the command.  Whether popen() succeeds is the
\* environment's choice.
start_tail(s) ==
    /\ pc' = "top"
    /\ op' = "start"
    /\ nStarts' = nStarts + 1
    /\ readyTrue' = FALSE
    /\ nResults' = 0
    /\ doubleClose' = s.dbl
    /\ m_result' = <<>>
    /\ m_exit_code' = -1
    /\ retReady' = FALSE
    /\ retText' = <<>>
    /\ retCode' = -1
    /\ \E launched \in BOOLEAN :
          IF launched
          THEN /\ m_stream' = nStarts + 1
               /\ openStreams' = s.open \cup {nStarts + 1}
               /\ m_state' = "running"
               /\ pipe' = <<>>
               /\ alive' = TRUE
               /\ full' = <<>>
               /\ launchFailed' = FALSE
               /\ status' = 0
          ELSE \* popen() returned nullptr: `return` before m_state = running
               /\ m_stream' = 0
               /\ openStreams' = s.open
               /\ m_state' = s.m_state
               /\ pipe' = s.pipe
               /\ full' = <<>>
               /\ launchFailed' = TRUE
               /\ UNCHANGED <<alive, status>>

\* executor::result() after its stop() has returned.
result_tail(s) ==
    /\ pc' = "top"
    /\ op' = "result"
    /\ m_state' = s.m_state
    /\ m_result' = s.m_result
    /\ m_exit_code' = s.m_exit_code
    /\ pipe' = s.pipe
    /\ openStreams' = s.open
    /\ doubleClose' = s.dbl
    /\ retText' = s.m_result
    /\ retCode' = s.m_exit_code
    /\ nResults' = Min(nResults + 1, 2)
    /\ UNCHANGED <<m_stream, retReady, alive, status, full, nStarts,
                   launchFailed, readyTrue>>

\* executor::~executor() after its stop() has returned.
dtor_tail(s) ==
    /\ pc' = "gone"
    /\ op' = "dtor"
    /\ m_state' = s.m_state
    /\ m_result' = s.m_result
    /\ m_exit_code' = s.m_exit_code
    /\ pipe' = s.pipe
    /\ openStreams' = s.open
    /\ doubleClose' = s.dbl
    /\ UNCHANGED <<m_stream, retReady, retText, retCode, alive, status, full,
                   nStarts, launchFailed, readyTrue, nResults>>

\* A start() that does not stop the command before it.
start_without_stop ==
    /\ UNCHANGED <<dialogVars, quoteVars>>
    /\ pc = "top"
    /\ nStarts < MaxStarts
    /\ start_tail([done |-> TRUE, m_state |-> "idle", m_result |-> m_result,
                   m_exit_code |-> m_exit_code, pipe |-> pipe,
                   open |-> openStreams, dbl |-> doubleClose])

\* The caller calls start(command).
Start ==
    /\ UNCHANGED <<dialogVars, quoteVars>>
    /\ pc = "top"
    /\ nStarts < MaxStarts
    /\ LET s == stop IN
          IF s.done THEN start_tail(s) ELSE StillStopping(s, "start")

\* The caller calls ready() (dialog::ready() forwards to it).
Ready ==
    /\ UNCHANGED <<dialogVars, quoteVars>>
    /\ pc = "top"
    /\ LET r == ready IN
          /\ m_state' = r.m_state
          /\ m_result' = r.m_result
          /\ pipe' = r.pipe
          /\ retReady' = r.ret
          /\ readyTrue' = (readyTrue \/ r.ret)
    /\ op' = "ready"
    /\ UNCHANGED <<m_exit_code, m_stream, pc, retText, retCode, alive, status,
                   openStreams, doubleClose, full, nStarts, launchFailed, nResults>>

\* The caller calls result(&exit_code).
Result ==
    /\ UNCHANGED <<dialogVars, quoteVars>>
    /\ pc = "top"
    /\ LET s == stop IN
          IF s.done THEN result_tail(s) ELSE StillStopping(s, "result")

\* The executor (or the dialog that owns it) is destroyed.
Destroy ==
    /\ UNCHANGED <<dialogVars, quoteVars>>
    /\ pc = "top"
    /\ LET s == stop IN
          IF s.done THEN dtor_tail(s) ELSE StillStopping(s, "dtor")

\* The thread wakes from sleep_for(200ms) inside stop() and goes round the
\* loop once more; when stop() returns, the operation that called it ends.
StopPoll ==
    /\ UNCHANGED <<dialogVars, quoteVars>>
    /\ pc \in {"start", "result", "dtor"}
    /\ LET s == stop IN
          IF ~s.done THEN StillStopping(s, pc)
          ELSE CASE pc = "start" -> start_tail(s)
                 [] pc = "result" -> result_tail(s)
                 [] OTHER -> dtor_tail(s)

\* The child writes one more byte to its standard output.
ChildWrite ==
    /\ UNCHANGED <<dialogVars, quoteVars>>
    /\ alive
    /\ Len(full) < MaxOut
    /\ Len(pipe) < PipeCap
    /\ \E b \in Bytes :
          /\ pipe' = Append(pipe, b)
          /\ full' = Append(full, b)
    /\ UNCHANGED <<m_state, m_result, m_exit_code, m_stream, pc, op, retReady, retText,
                   retCode, alive, status, openStreams, doubleClose, nStarts,
                   launchFailed, readyTrue, nResults>>

\* The child exits, which closes the write end of the pipe.
ChildExit ==
    /\ UNCHANGED <<dialogVars, quoteVars>>
    /\ alive
    /\ alive' = FALSE
    /\ \E st \in Statuses : status' = st
    /\ UNCHANGED <<m_state, m_result, m_exit_code, m_stream, pc, op, retReady, retText,
                   retCode, pipe, openStreams, doubleClose, full, nStarts,
                   launchFailed, readyTrue, nResults>>

(***************************************************************************)
(* Claims about the executor                                               *)
(***************************************************************************)

\* C1: once the child has terminated (FairSpec: the child runs to its end
\* and the caller keeps polling), ready() returns true after finitely many
\* calls: a running executor always leaves the running state, and ready()
\* returns true exactly when it finds or leaves the executor not running;
\* once ready() has returned true, every later ready() call returns true
\* until the next start().
C1_ReadyEventuallyTrue ==
    /\ [](op = "ready" /\ pc = "top" => (retReady <=> m_state # "running"))
    /\ [][(readyTrue /\ Ready) => retReady']_vars
    /\ (m_state = "running") ~> (m_state # "running")

\* C1 witness: a command that wrote output has terminated and a ready()
\* call has returned true.
C1_Witness ==
    op = "ready" /\ retReady /\ m_state = "finished" /\ full # <<>> /\ m_result = full

\* C2: a result() call that follows another result() call with no start()
\* in between returns the same text and the same exit code, returns at once
\* (the thread does not enter the wait loop), closes no stream and leaves
\* the executor's fields as they were.
C2_ResultIdempotent ==
    [][(nResults > 0 /\ Result) =>
          /\ retText' = retText
          /\ retCode' = retCode
          /\ pc' = "top"
          /\ UNCHANGED <<m_state, m_result, m_exit_code, m_stream, pipe,
                         openStreams, doubleClose>>]_vars

\* C2 witness: result() has returned twice for a command that wrote output
\* and exited with a non-zero code.
C2_Witness ==
    nResults = 2 /\ op = "result" /\ retText # <<>> /\ retCode = 256

\* C3: no stream is left open by a destroyed executor, none is leaked while
\* it lives (the only open stream is the one the executor holds, and an idle
\* executor holds none), none is closed twice, and a stream is closed only
\* when the child has exited and the pipe is empty.
C3_NoStreamLeak ==
    /\ [](/\ ~doubleClose
          /\ openStreams \subseteq {m_stream}
          /\ (m_state = "idle" => openStreams = {})
          /\ (pc = "gone" => openStreams = {}))
    /\ [][(openStreams \ openStreams' # {}) =>
             (pipe = <<>> /\ ~alive)]_vars

\* C3 witness: the executor was destroyed while its command was running (no
\* ready() had returned true and no result() had been called since the
\* start), the destructor drained the output and the stream is closed.
C3_Witness ==
    /\ pc = "gone"
    /\ m_stream # 0
    /\ ~readyTrue
    /\ nResults = 0
    /\ m_result # <<>>
    /\ openStreams = {}

\* C8: after a start() whose launch failed the executor is idle with an
\* empty output buffer and exit code -1; ready() returns true, result()
\* returns the empty text and -1, and neither waits nor closes a stream.
C8_LaunchFailure ==
    launchFailed =>
        /\ m_state = "idle"
        /\ m_result = <<>>
        /\ m_exit_code = -1
        /\ pc \in {"top", "gone"}
        /\ openStreams = {}
        /\ ~doubleClose
        /\ (op = "ready" => retReady)
        /\ (op = "result" => retText = <<>> /\ retCode = -1)

\* C8 witness: the second start() failed to launch after an earlier command
\* had run and exited with a non-zero code, and result() has been called.
C8_Witness ==
    launchFailed /\ nStarts = 2 /\ status = 256 /\ op = "result"

IsPrefix(s, t) == Len(s) <= Len(t) /\ SubSeq(t, 1, Len(s)) = s

\* C10: the buffer is always a prefix of what the started command has written,
\* the executor is finished only at end-of-stream, and result() returns
\* exactly the bytes the command wrote.
C10_ResultIsOutput ==
    /\ IsPrefix(m_result, full)
    /\ (m_state = "finished" => pipe = <<>> /\ ~alive)
    /\ (op = "result" /\ pc = "top" => retText = full)

(***************************************************************************)
(* dialog, settings, notify, message, file_dialog                          *)
(***************************************************************************)

\* enum class flag, without max_flag
Flag == {"is_verbose", "has_zenity", "has_matedialog", "has_qarma", "has_kdialog"}
\* enum class buttons
Buttons == {"ok", "ok_cancel", "yes_no", "yes_no_cancel"}
\* enum class icon
Icons == {"info", "warning", "error", "question"}
\* enum file_dialog::type
FileTypes == {"open", "save", "folder"}
\* The programs dialog::dialog() looks for, in the order it does.
Programs == <<"zenity", "matedialog", "qarma", "kdialog">>
\* The wait status of `which`: found (exit code 0) or not found (exit code 1).
\* A `which` that did not launch leaves exit_code at -1, which
\* check_program takes like any other non-zero value.
WhichExits == {0, 256}
Envs == [{Programs[k] : k \in 1..Len(Programs)} -> WhichExits]
\* The environments that matter to dialog::dialog(resync): all of them when
\* it runs `which`, one when it does not.
EnvsOf(resync, done) ==
    IF resync \/ ~done THEN Envs ELSE {[p \in {Programs[k] : k \in 1..Len(Programs)} |-> 0]}
\* The texts a caller passes: plain, and with a single quote.
Texts == {<<"a">>, <<"'">>}

RECURSIVE Text(_)
\* The std::string a sequence of pieces spells.
Text(s) == IF s = <<>> THEN "" ELSE Head(s) \o Text(Tail(s))

RECURSIVE regex_replace(_, _)
\* std::regex_replace over a pattern that matches one character: every
\* character of s in DOMAIN fmt is replaced by fmt[c], the others are kept.
regex_replace(s, fmt) ==
    IF s = <<>> THEN <<>>
    ELSE (IF Head(s) \in DOMAIN fmt THEN fmt[Head(s)] ELSE <<Head(s)>>)
         \o regex_replace(Tail(s), fmt)

\* A shell_quote that escapes the quote and stays inside the quoted string.
shell_quote_backslash_only(s) ==
    <<"'">> \o regex_replace(s, [c \in {"'"} |-> <<"\\", "'">>]) \o <<"'">>

\* dialog::shell_quote: "'" + regex_replace(str, regex("'"), "'\\''") + "'"
shell_quote(s) ==
    <<"'">> \o regex_replace(s, [c \in {"'"} |-> <<"'", "\\", "'", "'">>]) \o <<"'">>

\* dialog::powershell_quote:
\* "'" + regex_replace(str, regex("['\"]"), "$&$&") + "'"
powershell_quote(s) ==
    <<"'">> \o regex_replace(s, [c \in {"'", "\""} |-> <<c, c>>]) \o <<"'">>

\* dialog::is_zenity
is_zenity(f) == f["has_zenity"] \/ f["has_matedialog"] \/ f["has_qarma"]

\* dialog::is_kdialog
is_kdialog(f) == f["has_kdialog"]

\* dialog::desktop_helper
desktop_helper(f) ==
    IF f["has_zenity"] THEN "zenity"
    ELSE IF f["has_matedialog"] THEN "matedialog"
    ELSE IF f["has_qarma"] THEN "qarma"
    ELSE IF f["has_kdialog"] THEN "kdialog"
    ELSE "echo"

\* dialog::buttons_to_name
buttons_to_name(b) ==
    CASE b = "ok_cancel" -> "okcancel"
      [] b = "yes_no" -> "yesno"
      [] b = "yes_no_cancel" -> "yesnocancel"
      [] OTHER -> "ok"

\* dialog::get_icon_name, !_WIN32
get_icon_name(i) ==
    CASE i = "warning" -> "warning"
      [] i = "error" -> "error"
      [] i = "question" -> "question"
      [] OTHER -> "information"

\* The program whose presence flag f records: has_zenity is zenity's.
ProgramOf(f) == CHOOSE p \in DOMAIN [q \in {Programs[k] : k \in 1..Len(Programs)} |-> q] : "has_" \o p = f

\* One thing an operation did that the outside sees: a line on std::cerr
\* ("cerr") or a command handed to executor::start ("start"), with the
\* verbosity flag as it was then.
Ev(kind, command, f) == [kind |-> kind, cmd |-> command, verbose |-> f["is_verbose"]]

\* m_async.start(command), as the dialog constructors call it.
async_start(f, command) == <<Ev("start", command, f)>>

\* dialog::execute: the line on std::cerr when verbose, then
\* executor(command).result(exit_code); the exit code is the environment's.
execute(f, command) ==
    (IF f["is_verbose"] THEN <<Ev("cerr", command, f)>> ELSE <<>>)
    \o <<Ev("start", command, f)>>

\* The command of dialog::check_program.
which_command(program) == <<"which ", program, " 2>/dev/null">>

\* dialog::check_program: exit_code == 0
check_program(env, program) == env[program] = 0

RECURSIVE ProbeEvents(_, _)
\* What the check_program calls of dialog::dialog() log and start, in order.
ProbeEvents(f, k) ==
    IF k > Len(Programs) THEN <<>>
    ELSE execute(f, which_command(Programs[k])) \o ProbeEvents(f, k + 1)

\* A dialog::dialog() that forgets it has analysed.
dialog_ctor_never_analysed(resync, env) ==
    IF resync \/ ~analysed
    THEN [flags |-> [f \in Flag |->
                        IF f = "is_verbose" THEN flags[f]
                        ELSE check_program(env, ProgramOf(f))],
          analysed |-> FALSE,
          events |-> ProbeEvents(flags, 1)]
    ELSE [flags |-> flags, analysed |-> analysed, events |-> <<>>]

\* dialog::dialog(resync): the flags and `analysed` it leaves, and what it
\* logged and started.  flag "has_<program>" is set from `which <program>`.
dialog_ctor(resync, env) ==
    IF resync \/ ~analysed
    THEN [flags |-> [f \in Flag |->
                        IF f = "is_verbose" THEN flags[f]
                        ELSE check_program(env, ProgramOf(f))],
          analysed |-> TRUE,
          events |-> ProbeEvents(flags, 1)]
    ELSE [flags |-> flags, analysed |-> analysed, events |-> <<>>]

\* A message::message whose zenity command for yes_no_cancel is the one for
\* yes_no.
message_command_list_as_question(f, title, text, b, i) ==
    <<desktop_helper(f)>> \o
    IF is_zenity(f)
    THEN (CASE b = "ok_cancel" ->
                  <<" --", "question", " --", "ok", "-label=OK --cancel-label=Cancel">>
            [] b = "yes_no" -> <<" --", "question">>
            [] b = "yes_no_cancel" -> <<" --", "question">>
            [] OTHER -> CASE i = "error" -> <<" --", "error">>
                          [] i = "warning" -> <<" --", "warning">>
                          [] OTHER -> <<" --info">>)
         \o <<" --title ">> \o shell_quote(title)
         \o <<" --width 300 --height 0">>
         \o <<" --text ">> \o shell_quote(text)
         \o <<" --icon-name=dialog-", get_icon_name(i)>>
    ELSE IF is_kdialog(f)
    THEN (IF b = "ok"
          THEN CASE i = "error" -> <<" --", "error">>
                 [] i = "warning" -> <<" --sorry">>
                 [] OTHER -> <<" --msgbox">>
          ELSE <<" --">>
               \o (IF i = "warning" \/ i = "error" THEN <<"warning">> ELSE <<>>)
               \o <<"yesno">>
               \o (IF b = "yes_no_cancel" THEN <<"cancel">> ELSE <<>>))
         \o <<" ">> \o shell_quote(text)
         \o <<" --title ">> \o shell_quote(title)
         \o (IF b = "ok_cancel" THEN <<" --yes-label OK --no-label Cancel">> ELSE <<>>)
    ELSE <<>>

\* message::message, !_WIN32: the command it builds.
message_command(f, title, text, b, i) ==
    <<desktop_helper(f)>> \o
    IF is_zenity(f)
    THEN (CASE b = "ok_cancel" ->
                  <<" --", "question", " --", "ok", "-label=OK --cancel-label=Cancel">>
            [] b = "yes_no" -> <<" --", "question">>
            [] b = "yes_no_cancel" -> <<" --list --column '' --hide-header 'Yes' 'No'">>
            [] OTHER -> CASE i = "error" -> <<" --", "error">>
                          [] i = "warning" -> <<" --", "warning">>
                          [] OTHER -> <<" --info">>)
         \o <<" --title ">> \o shell_quote(title)
         \o <<" --width 300 --height 0">>
         \o <<" --text ">> \o shell_quote(text)
         \o <<" --icon-name=dialog-", get_icon_name(i)>>
    ELSE IF is_kdialog(f)
    THEN (IF b = "ok"
          THEN CASE i = "error" -> <<" --", "error">>
                 [] i = "warning" -> <<" --sorry">>
                 [] OTHER -> <<" --msgbox">>
          ELSE <<" --">>
               \o (IF i = "warning" \/ i = "error" THEN <<"warning">> ELSE <<>>)
               \o <<"yesno">>
               \o (IF b = "yes_no_cancel" THEN <<"cancel">> ELSE <<>>))
         \o <<" ">> \o shell_quote(text)
         \o <<" --title ">> \o shell_quote(title)
         \o (IF b = "ok_cancel" THEN <<" --yes-label OK --no-label Cancel">> ELSE <<>>)
    ELSE <<>>

\* notify::notify, !_WIN32: the command it builds.
notify_command(f, title, text, icon) ==
    LET i == IF icon = "question" THEN "info" ELSE icon
    IN  <<desktop_helper(f)>> \o
        IF is_zenity(f)
        THEN <<" --notification --window-icon ", get_icon_name(i), " --text ">>
             \o shell_quote(title \o <<"\n">> \o text)
        ELSE IF is_kdialog(f)
        THEN <<" --icon ", get_icon_name(i), " --title ">> \o shell_quote(title)
             \o <<" --passivepopup ">> \o shell_quote(text) \o <<" 5">>
        ELSE <<>>

\* file_dialog::file_dialog, !_WIN32: the command it builds.
file_command(f, type, title, default_path, filter, multiselect) ==
    <<desktop_helper(f)>> \o
    IF is_zenity(f)
    THEN <<" --file-selection --filename=">> \o shell_quote(default_path)
         \o <<" --title ">> \o shell_quote(title)
         \o <<" --file-filter=">> \o shell_quote(filter)
         \o (IF multiselect THEN <<" --multiple">> ELSE <<>>)
         \o (IF type = "save" THEN <<" --save">> ELSE <<>>)
    ELSE <<>>

\* The arguments of the last operation; the ones it does not take keep these.
NoArgs == [title |-> <<>>, text |-> <<>>, buttons |-> "ok_cancel", icon |-> "info",
           type |-> "open", path |-> <<>>, filter |-> <<>>, multiselect |-> FALSE,
           value |-> FALSE]

\* A dialog of kind `kind` was constructed: the base class constructor d,
\* then the command handed to m_async.start.
Constructed(kind, args, d, command) ==
    /\ flags' = d.flags
    /\ analysed' = d.analysed
    /\ events' = d.events \o async_start(d.flags, command)
    /\ dop' = kind
    /\ dargs' = args
    /\ nOps' = nOps + 1
    /\ nDialogs' = nDialogs + 1
    /\ UNCHANGED <<execVars, quoteVars>>

\* pfd::message(title, text, buttons, icon)
Message ==
    /\ nOps < MaxOps
    /\ \E title \in Texts, text \in Texts, b \in Buttons, i \in Icons, env \in EnvsOf(FALSE, analysed) :
          LET d == dialog_ctor(FALSE, env)
          IN  Constructed("message",
                          [NoArgs EXCEPT !.title = title, !.text = text,
                                         !.buttons = b, !.icon = i],
                          d, message_command(d.flags, title, text, b, i))

\* pfd::notify(title, message, icon)
Notify ==
    /\ nOps < MaxOps
    /\ \E title \in Texts, text \in Texts, i \in Icons, env \in EnvsOf(FALSE, analysed) :
          LET d == dialog_ctor(FALSE, env)
          IN  Constructed("notify",
                          [NoArgs EXCEPT !.title = title, !.text = text, !.icon = i],
                          d, notify_command(d.flags, title, text, i))

\* pfd::open_file(title, default_path, filter, multiselect),
\* pfd::save_file(title, default_path, filter),
\* pfd::select_folder(title, default_path)
FileDialog ==
    /\ nOps < MaxOps
    /\ \E type \in FileTypes, title \in Texts, path \in Texts \cup {<<>>},
          filter \in Texts \cup {<<>>}, multiselect \in BOOLEAN, env \in EnvsOf(FALSE, analysed) :
          /\ type # "open" => ~multiselect
          /\ type = "folder" => filter = <<>>
          /\ LET d == dialog_ctor(FALSE, env)
             IN  Constructed("file",
                             [NoArgs EXCEPT !.type = type, !.title = title,
                                            !.path = path, !.filter = filter,
                                            !.multiselect = multiselect],
                             d, file_command(d.flags, type, title, path, filter,
                                             multiselect))

\* settings::verbose(value): internal::dialog().flags(is_verbose) = value
Verbose ==
    /\ nOps < MaxOps
    /\ \E value \in BOOLEAN, env \in EnvsOf(FALSE, analysed) :
          LET d == dialog_ctor(FALSE, env)
          IN  /\ flags' = [d.flags EXCEPT !["is_verbose"] = value]
              /\ analysed' = d.analysed
              /\ events' = d.events
              /\ dargs' = [NoArgs EXCEPT !.value = value]
    /\ dop' = "verbose"
    /\ nOps' = nOps + 1
    /\ UNCHANGED <<nDialogs, execVars, quoteVars>>

\* settings::rescan(): internal::dialog(true)
Rescan ==
    /\ nOps < MaxOps
    /\ \E env \in EnvsOf(TRUE, analysed) :
          LET d == dialog_ctor(TRUE, env)
          IN  /\ flags' = d.flags
              /\ analysed' = d.analysed
              /\ events' = d.events
    /\ dop' = "rescan"
    /\ dargs' = NoArgs
    /\ nOps' = nOps + 1
    /\ UNCHANGED <<nDialogs, execVars, quoteVars>>

(***************************************************************************)
(* The interpreters the quoting functions write for                        *)
(***************************************************************************)

\* The characters of the strings that are quoted: both quotes, the
\* backslash, the space, the dollar sign and a plain character.
Chars == {"'", "\"", "\\", " ", "$", "a"}
Strings == UNION {[1..k -> Chars] : k \in 0..MaxLen}

RECURSIVE sh_lex(_, _, _, _, _, _)
\* How the shell that popen() runs (sh -c command) reads q from position i:
\* the words it finds, and ok = FALSE when a quote is left open or a
\* character is interpreted (a `$` outside single quotes starts an
\* expansion).  mode: "plain", inside "single" or inside "double" quotes;
\* cur is the word being read, inword whether one has begun.
sh_lex(q, i, mode, cur, inword, words) ==
    IF i > Len(q)
    THEN IF mode # "plain" THEN [ok |-> FALSE, words |-> words]
         ELSE [ok |-> TRUE, words |-> IF inword THEN Append(words, cur) ELSE words]
    ELSE LET c == q[i] IN
         CASE mode = "single" ->
                IF c = "'" THEN sh_lex(q, i + 1, "plain", cur, TRUE, words)
                ELSE sh_lex(q, i + 1, "single", Append(cur, c), TRUE, words)
           [] mode = "double" ->
                IF c = "\"" THEN sh_lex(q, i + 1, "plain", cur, TRUE, words)
                ELSE IF c = "$" THEN [ok |-> FALSE, words |-> words]
                ELSE IF c = "\\" /\ i < Len(q) /\ q[i + 1] \in {"$", "\"", "\\"}
                THEN sh_lex(q, i + 2, "double", Append(cur, q[i + 1]), TRUE, words)
                ELSE sh_lex(q, i + 1, "double", Append(cur, c), TRUE, words)
           [] OTHER ->
                IF c = "'" THEN sh_lex(q, i + 1, "single", cur, TRUE, words)
                ELSE IF c = "\"" THEN sh_lex(q, i + 1, "double", cur, TRUE, words)
                ELSE IF c = "$" THEN [ok |-> FALSE, words |-> words]
                ELSE IF c = "\\"
                THEN IF i < Len(q)
                     THEN sh_lex(q, i + 2, "plain", Append(cur, q[i + 1]), TRUE, words)
                     ELSE sh_lex(q, i + 1, "plain", Append(cur, c), TRUE, words)
                ELSE IF c = " "
                THEN sh_lex(q, i + 1, "plain", <<>>, FALSE,
                            IF inword THEN Append(words, cur) ELSE words)
                ELSE sh_lex(q, i + 1, "plain", Append(cur, c), TRUE, words)

\* The words the shell reads in q.
sh_words(q) == sh_lex(q, 1, "plain", <<>>, FALSE, <<>>)

RECURSIVE ps_lex(_, _, _)
\* A single-quoted string literal of the scripting host from position i on
\* (after the opening quote): '' stands for one quote, a lone ' ends the
\* literal, every other character stands for itself.
ps_lex(q, i, cur) ==
    IF i > Len(q) THEN [ok |-> FALSE, value |-> cur]
    ELSE IF q[i] = "'"
    THEN IF i < Len(q) /\ q[i + 1] = "'" THEN ps_lex(q, i + 2, Append(cur, "'"))
         ELSE [ok |-> i = Len(q), value |-> cur]
    ELSE ps_lex(q, i + 1, Append(cur, q[i]))

\* q read as one single-quoted string literal of the scripting host.
ps_literal(q) ==
    IF q # <<>> /\ q[1] = "'" THEN ps_lex(q, 2, <<>>)
    ELSE [ok |-> FALSE, value |-> <<>>]

\* shell_quote(str) is called.
ShellQuote ==
    /\ qfn = "none"
    /\ quoted' = shell_quote(str)
    /\ qfn' = "shell"
    /\ UNCHANGED <<str, execVars, dialogVars>>

\* powershell_quote(str) is called.
PowershellQuote ==
    /\ qfn = "none"
    /\ quoted' = powershell_quote(str)
    /\ qfn' = "powershell"
    /\ UNCHANGED <<str, execVars, dialogVars>>

(***************************************************************************)
(* Claims about the dialog layer                                           *)
(***************************************************************************)

\* The command the last operation handed to m_async.start.
LastCommand == events[Len(events)].cmd

\* The pieces of command spell tok somewhere.
HasToken(command, tok) ==
    \E i \in 1..Len(command), j \in 1..Len(command) :
        i <= j /\ Text(SubSeq(command, i, j)) = tok

\* How many commands of `which` the events hold.
ProbeRuns(ev) ==
    Cardinality({k \in 1..Len(ev) : ev[k].kind = "start" /\ ev[k].cmd[1] = "which "})

DialogKinds == {"message", "notify", "file"}

\* C4: with the verbosity flag set, every command that is started was
\* written to std::cerr just before.
C4_LoggedBeforeStart ==
    \A k \in 1..Len(events) :
        (events[k].kind = "start" /\ events[k].verbose) =>
            /\ k > 1
            /\ events[k - 1].kind = "cerr"
            /\ events[k - 1].cmd = events[k].cmd

\* A helper program was found.
Resolved == is_zenity(flags) \/ is_kdialog(flags)

\* The command message::message builds for the last operation's title and
\* text with buttons b and icon i.
CommandFor(b, i) == message_command(flags, dargs.title, dargs.text, b, i)

\* C7 as claimed: with a helper found, the command of a message dialog with
\* yes_no_cancel and warning contains `yesnocancel` and `warning`, and the
\* command of any message dialog tells its buttons and its icon (no other
\* buttons or icon give the same command).
C7_TokensInCommand ==
    (dop = "message" /\ Resolved) =>
        /\ (dargs.buttons = "yes_no_cancel" /\ dargs.icon = "warning") =>
               (HasToken(LastCommand, "yesnocancel") /\ HasToken(LastCommand, "warning"))
        /\ \A b \in Buttons, i \in Icons :
               Text(CommandFor(b, i)) = Text(LastCommand) =>
                   (b = dargs.buttons /\ i = dargs.icon)

\* The icons kdialog's command tells apart: info and question never, warning
\* and error only when the buttons are ok.
KdialogIcon(b, i) ==
    IF i \in {"info", "question"} THEN "plain"
    ELSE IF b = "ok" THEN i
    ELSE "warning"

\* C7 as amended: for kdialog the command of yes_no_cancel with warning
\* contains `yesnocancel` and `warning`; for the zenity family it contains
\* `warning` (in --icon-name=dialog-warning) and no `yesnocancel`, the
\* buttons being the list ` --list --column '' --hide-header 'Yes' 'No'`.
\* The zenity command always contains --icon-name=dialog-<icon name>.  Two
\* message commands with the same title and text are the same string exactly
\* when the buttons are the same and the icons are the same (zenity) or
\* fall in the same class KdialogIcon (kdialog).
C7_CommandTellsButtons ==
    (dop = "message" /\ Resolved) =>
        /\ (dargs.buttons = "yes_no_cancel" /\ dargs.icon = "warning") =>
               IF is_zenity(flags)
               THEN /\ HasToken(LastCommand, "warning")
                    /\ ~HasToken(LastCommand, "yesnocancel")
                    /\ HasToken(LastCommand, " --list --column '' --hide-header 'Yes' 'No'")
               ELSE /\ HasToken(LastCommand, " --warningyesnocancel")
                    /\ HasToken(LastCommand, "yesnocancel")
                    /\ HasToken(LastCommand, "warning")
        /\ is_zenity(flags) =>
               HasToken(LastCommand, " --icon-name=dialog-" \o get_icon_name(dargs.icon))
        /\ \A b \in Buttons, i \in Icons :
               Text(CommandFor(b, i)) = Text(LastCommand) <=>
                   /\ b = dargs.buttons
                   /\ IF is_zenity(flags) THEN i = dargs.icon
                      ELSE KdialogIcon(b, i) = KdialogIcon(b, dargs.icon)

\* C7 witness: a message dialog with yes_no_cancel and warning was built for
\* zenity.
C7_Witness ==
    /\ dop = "message"
    /\ dargs.buttons = "yes_no_cancel"
    /\ dargs.icon = "warning"
    /\ LastCommand[1] = "zenity"

\* What C9 says of every step, as claimed and as amended: an operation that
\* does not probe leaves the presence flags alone; whatever an operation
\* logs and starts, it does with the verbosity flag it found; only
\* settings::verbose changes the verbosity flag.
C9_Frame ==
    nOps' # nOps =>
        /\ ProbeRuns(events') = 0 =>
               \A f \in Flag \ {"is_verbose"} : flags'[f] = flags[f]
        /\ \A k \in 1..Len(events') : events'[k].verbose = flags["is_verbose"]
        /\ dop' # "verbose" => flags'["is_verbose"] = flags["is_verbose"]

\* C9 as claimed: the probe runs during the first dialog construction
\* (message, notify, file dialog) and during each rescan, and in no other
\* operation.
C9_ProbeFirstDialogOrRescan ==
    /\ [](dop # "none" =>
            (ProbeRuns(events) > 0 <=>
                (dop = "rescan" \/ (dop \in DialogKinds /\ nDialogs = 1))))
    /\ [][C9_Frame]_vars

\* C9 as amended: the probe runs, once for each of the four programs, during
\* the first operation of the process, be it a dialog construction, a
\* settings::verbose call or a rescan, and during each rescan, and in no
\* other operation.
C9_ProbeFirstOperationOrRescan ==
    /\ [](dop # "none" =>
            /\ ProbeRuns(events) \in {0, Len(Programs)}
            /\ ProbeRuns(events) > 0 <=> (dop = "rescan" \/ nOps = 1))
    /\ [][C9_Frame]_vars

\* C9 witness: settings::verbose was the first operation and ran the probe.
C9_Witness ==
    dop = "verbose" /\ nOps = 1 /\ ProbeRuns(events) = Len(Programs)

(***************************************************************************)
(* Claims about quoting                                                    *)
(***************************************************************************)

\* C5: the shell reads shell_quote(S) as exactly one word, the word is S,
\* no quote is left open and no character is interpreted.
C5_ShellQuoteRoundTrip ==
    qfn = "shell" => sh_words(quoted) = [ok |-> TRUE, words |-> <<str>>]

\* C5 witness: a string with a single quote, a double quote or a backslash
\* has been quoted.
C5_Witness ==
    /\ qfn = "shell"
    /\ \E k \in 1..Len(str) : str[k] = "'"
    /\ \E k \in 1..Len(str) : str[k] \in {"\"", "\\"}

\* C6: for a string that contains a quote, powershell_quote(S) read as a
\* single-quoted string literal is S.
C6_PowershellQuoteRoundTrip ==
    (qfn = "powershell" /\ \E k \in 1..Len(str) : str[k] \in {"'", "\""}) =>
        ps_literal(quoted) = [ok |-> TRUE, value |-> str]

\* executor() = default, with the member initialisers of lines 176-183.
ExecInit ==
    /\ m_state = "idle"
    /\ m_result = <<>>
    /\ m_exit_code = -1
    /\ m_stream = 0
    /\ pc = "top"
    /\ op = "none"
    /\ retReady = FALSE
    /\ retText = <<>>
    /\ retCode = -1
    /\ pipe = <<>>
    /\ alive = FALSE
    /\ status = 0
    /\ openStreams = {}
    /\ doubleClose = FALSE
    /\ full = <<>>
    /\ nStarts = 0
    /\ launchFailed = FALSE
    /\ readyTrue = FALSE
    /\ nResults = 0

DialogIdle ==
    /\ flags = [f \in Flag |-> FALSE]
    /\ analysed = FALSE
    /\ nOps = 0
    /\ nDialogs = 0
    /\ dop = "none"
    /\ dargs = NoArgs
    /\ events = <<>>

QuoteIdle ==
    /\ str = <<>>
    /\ quoted = <<>>
    /\ qfn = "none"

Init == ExecInit /\ DialogIdle /\ QuoteIdle

Next ==
    \/ Start
    \/ Ready
    \/ Result
    \/ Destroy
    \/ StopPoll
    \/ ChildWrite
    \/ ChildExit

Spec == Init /\ [][Next]_vars

\* The dialog layer: the static flags start false (zero-initialised statics),
\* nothing has been analysed.
DialogNext ==
    \/ Message
    \/ Notify
    \/ FileDialog
    \/ Verbose
    \/ Rescan

SpecDialog == Init /\ [][DialogNext]_vars

\* The quoting functions, each applied once to a string of Strings.
QuoteInit ==
    /\ ExecInit
    /\ DialogIdle
    /\ str \in Strings
    /\ quoted = <<>>
    /\ qfn = "none"

QuoteNext ==
    \/ ShellQuote
    \/ PowershellQuote

SpecQuote == QuoteInit /\ [][QuoteNext]_vars

\* The child runs to its end and the caller keeps polling: the premises of
\* the claims about what ready() eventually returns.
FairSpec ==
    /\ Init
    /\ [][Next]_vars
    /\ WF_vars(ChildExit)
    /\ WF_vars(Ready)
    /\ WF_vars(StopPoll)
====
